---- MODULE Spec2Model ----
(***************************************************************************)
(* A model of the build-redis store: the in-memory maps, the append-only   *)
(* file (AOF), the command engine and the lock discipline.                 *)
(*                                                                         *)
(* The variant modelled is the full one (src/redis_test.go, from its       *)
(* second "package main" on): scalar entries with expiration, lists, hash  *)
(* fields, DEL, EXPIRE and the writeAOFEnabled gate.                       *)
(*                                                                         *)
(* A Go string is a sequence of one-character strings, so that joining,    *)
(* splitting and the composite key  key + "." + field  are computed, not   *)
(* assumed.  A time.Time is an integer number of ticks, ZeroTime being the *)
(* zero value of time.Time; a time.Duration is a signed integer of DurBits *)
(* bits (the int64 of the source, narrowed so that TLC's integers can     *)
(* hold it and its wrap-around).                                           *)
(***************************************************************************)
EXTENDS Integers, Sequences, FiniteSets, TLC

----------------------------------------------------------------------------
(* Bounds of the model.                                                    *)

\* the clock advances at most this many ticks after the process starts
MaxTicks == 2
\* at most this many records are appended to the file by live commands
MaxRecords == 3
\* at most this many ListPush calls are made
MaxPush == 3
\* the number of concurrent callers
NumProcs == 3
\* at most this many calls are begun by the concurrent callers
MaxCalls == 3
\* the file a replay reads has at most this many lines
MaxLines == 2
\* at most this many calls are begun while the lock discipline is observed
MaxOps == 2

----------------------------------------------------------------------------
(* Program constants.                                                      *)

\* time.Second, in clock ticks (the source's unit is the nanosecond)
Second == 2
\* width of time.Duration and of int (64 in the source)
DurBits == 4
\* the zero value of time.Time, which IsZero() recognises
ZeroTime == 0
\* time.Now() when the process starts; far enough from ZeroTime that
\* now + duration is never the zero time
Epoch == 20

----------------------------------------------------------------------------
(* Strings.                                                                *)

SP == " "
NL == "\n"
CR == "\r"

\* strings.Join(args, " ")
RECURSIVE Join(_)
Join(args) ==
    IF Len(args) = 0 THEN <<>>
    ELSE IF Len(args) = 1 THEN args[1]
    ELSE args[1] \o <<SP>> \o Join(Tail(args))

\* index of the first occurrence of character c in s, 0 when there is none
RECURSIVE IndexFrom(_, _, _)
IndexFrom(s, c, i) ==
    IF i > Len(s) THEN 0
    ELSE IF s[i] = c THEN i
    ELSE IndexFrom(s, c, i + 1)

Index(s, c) == IndexFrom(s, c, 1)

\* strings.Split(s, " "): every separator cuts, so n separators give n + 1
\* parts, and empty parts are kept
RECURSIVE Split(_)
Split(s) ==
    LET i == Index(s, SP) IN
    IF i = 0 THEN <<s>>
    ELSE <<SubSeq(s, 1, i - 1)>> \o Split(SubSeq(s, i + 1, Len(s)))

\* bufio.ScanLines drops one trailing carriage return of each line
dropCR(line) ==
    IF Len(line) > 0 /\ line[Len(line)] = CR
    THEN SubSeq(line, 1, Len(line) - 1)
    ELSE line

\* the lines bufio.Scanner yields for the content of a file: cut at each
\* newline; a last line without newline is yielded when it is not empty
RECURSIVE ScanLines(_)
ScanLines(content) ==
    LET i == Index(content, NL) IN
    IF Len(content) = 0 THEN <<>>
    ELSE IF i = 0 THEN <<dropCR(content)>>
    ELSE <<dropCR(SubSeq(content, 1, i - 1))>>
             \o ScanLines(SubSeq(content, i + 1, Len(content)))

----------------------------------------------------------------------------
(* Numbers.                                                                *)

DigitChars == <<"0", "1", "2", "3", "4", "5", "6", "7", "8", "9">>

IsDigit(c) == \E i \in 1..10 : DigitChars[i] = c

DigitVal(c) == (CHOOSE i \in 1..10 : DigitChars[i] = c) - 1

RECURSIVE Pow2(_)
Pow2(n) == IF n = 0 THEN 1 ELSE 2 * Pow2(n - 1)

\* the largest and the smallest value of a signed integer of DurBits bits
MaxInt == Pow2(DurBits - 1) - 1
MinInt == 0 - Pow2(DurBits - 1)

\* two's-complement wrap-around of an arithmetic result
Wrap(n) == ((n - MinInt) % Pow2(DurBits)) + MinInt

\* the value of a string of decimal digits, read from the left
RECURSIVE DecimalValue(_, _)
DecimalValue(s, acc) ==
    IF Len(s) = 0 THEN acc
    ELSE DecimalValue(Tail(s), 10 * acc + DigitVal(Head(s)))

\* strconv.Atoi: an optional sign and at least one decimal digit; an error
\* for anything else and for a value that does not fit an int
Atoi(s) ==
    LET signed == Len(s) > 0 /\ Head(s) \in {"+", "-"}
        digits == IF signed THEN Tail(s) ELSE s
        syntax == Len(digits) > 0 /\ \A i \in 1..Len(digits) : IsDigit(digits[i])
        abs    == IF syntax THEN DecimalValue(digits, 0) ELSE 0
        val    == IF signed /\ Head(s) = "-" THEN 0 - abs ELSE abs
    IN  [ok |-> syntax /\ val >= MinInt /\ val <= MaxInt, val |-> val]

\* time.Duration(seconds) * time.Second, an int64 multiplication
SecondsToDuration(seconds) == Wrap(seconds * Second)

----------------------------------------------------------------------------
(* Maps.                                                                   *)

\* m[k] = v
MapSet(m, k, v) == [x \in (DOMAIN m) \cup {k} |-> IF x = k THEN v ELSE m[x]]

\* delete(m, k)
MapDel(m, k) == [x \in (DOMAIN m) \ {k} |-> m[x]]

EmptyMap == [x \in {} |-> <<>>]

\* m[k] of a map of slices: the nil slice when k is absent
SliceAt(m, k) == IF k \in DOMAIN m THEN m[k] ELSE <<>>

\* the orders in which a range loop may visit the keys of a map
Orders(S) ==
    {o \in [1..Cardinality(S) -> S] : \A x \in S : \E i \in 1..Cardinality(S) : o[i] = x}

----------------------------------------------------------------------------
(* The store: type RedisStore.  A store value st is the record             *)
(*   data            the scalar map, key -> StoredValue                    *)
(*   listData        the list map, key -> sequence of strings              *)
(*   aofFile         the content of redisstore.aof                         *)
(*   aofWriter       the content of the bufio.Writer's buffer              *)
(*   writeAOFEnabled the gate of writeAOF                                  *)

\* StoredValue{value: v}: the expiration is the zero time
StoredValue(v) == [value |-> v, expiration |-> ZeroTime]

\* NewRedisStore over a file of the given content; writeAOFEnabled is not
\* set, so it is false
NewRedisStore(content) ==
    [data |-> EmptyMap, listData |-> EmptyMap, aofFile |-> content,
     aofWriter |-> <<>>, writeAOFEnabled |-> FALSE]

\* fmt.Sprintf("%s %s\n", command, strings.Join(args, " "))
Line(command, args) == command \o <<SP>> \o Join(args) \o <<NL>>

\* bufio.Writer.WriteString: the line goes to the end of the buffer
WriteString(buf, line) == buf \o line

\* bufio.Writer.Flush, first half: the buffer is written to the file
FlushWrite(file, buf) == file \o buf

\* a writeAOF without the gate
writeAOFUngated(st, command, args) ==
    LET buf == WriteString(st.aofWriter, Line(command, args))
    IN  [st EXCEPT !.aofFile = FlushWrite(st.aofFile, buf), !.aofWriter = <<>>]

\* writeAOF
writeAOF(st, command, args) ==
    IF ~st.writeAOFEnabled THEN st
    ELSE LET buf == WriteString(st.aofWriter, Line(command, args))
         IN  [st EXCEPT !.aofFile = FlushWrite(st.aofFile, buf), !.aofWriter = <<>>]

NameSET == <<"S", "E", "T">>
NameGET == <<"G", "E", "T">>
NameDEL == <<"D", "E", "L">>
NameEXPIRE == <<"E", "X", "P", "I", "R", "E">>
NameHMSET == <<"H", "M", "S", "E", "T">>
NameHMGET == <<"H", "M", "G", "E", "T">>
NameEXIT == <<"E", "X", "I", "T">>

\* key + "." + field
CompositeKey(key, field) == key \o <<".">> \o field

ListPush(st, key, value) ==
    [st EXCEPT !.listData = MapSet(@, key, Append(SliceAt(@, key), value))]

\* a ListPop that takes the value pushed last
ListPopLast(st, key) ==
    IF Len(SliceAt(st.listData, key)) = 0
    THEN [st |-> st, value |-> <<>>, found |-> FALSE]
    ELSE LET items == st.listData[key] IN
         [st |-> [st EXCEPT !.listData =
                     MapSet(@, key, SubSeq(items, 1, Len(items) - 1))],
          value |-> items[Len(items)], found |-> TRUE]

\* ListPop: the store after the call, the value and the found flag
ListPop(st, key) ==
    IF Len(SliceAt(st.listData, key)) = 0
    THEN [st |-> st, value |-> <<>>, found |-> FALSE]
    ELSE [st |-> [st EXCEPT !.listData = MapSet(@, key, Tail(@[key]))],
          value |-> Head(st.listData[key]), found |-> TRUE]

SetWithExpiration(st, key, value, duration, now) ==
    writeAOF([st EXCEPT !.data =
                 MapSet(@, key, [value |-> value, expiration |-> now + duration])],
             NameSET, <<key, value>>)

Set(st, key, value) ==
    writeAOF([st EXCEPT !.data = MapSet(@, key, value)], NameSET, <<key, value.value>>)

Get(st, key, now) ==
    IF key \notin DOMAIN st.data THEN [value |-> <<>>, found |-> FALSE]
    ELSE IF st.data[key].expiration # ZeroTime /\ now > st.data[key].expiration
    THEN [value |-> <<>>, found |-> FALSE]
    ELSE [value |-> st.data[key].value, found |-> TRUE]

\* a Del that writes its record and leaves the entry in the map
DelKeepsEntry(st, key) == writeAOF(st, NameDEL, <<key>>)

Del(st, key) == writeAOF([st EXCEPT !.data = MapDel(@, key)], NameDEL, <<key>>)

\* one round of HMSet's range loop: the entry is stored, then logged
HMSetField(st, key, k, v) ==
    writeAOF([st EXCEPT !.data = MapSet(@, CompositeKey(key, k), StoredValue(v))],
             NameHMSET, <<key, k, v>>)

\* HMSet, its range loop visiting the fields in the given order
RECURSIVE HMSet(_, _, _, _)
HMSet(st, key, values, order) ==
    IF Len(order) = 0 THEN st
    ELSE HMSet(HMSetField(st, key, Head(order), values[Head(order)]),
               key, values, Tail(order))

\* a HMGet that reports every requested field, the absent ones with the
\* value of the zero StoredValue
HMGetEveryField(st, key, fields) ==
    [field \in {fields[i] : i \in 1..Len(fields)} |->
        IF CompositeKey(key, field) \in DOMAIN st.data
        THEN st.data[CompositeKey(key, field)].value ELSE <<>>]

\* HMGet: the fields that have an entry, each with the entry's value
HMGet(st, key, fields) ==
    LET present == {fields[i] : i \in {j \in 1..Len(fields) :
                        CompositeKey(key, fields[j]) \in DOMAIN st.data}}
    IN  [f \in present |-> st.data[CompositeKey(key, f)].value]

----------------------------------------------------------------------------
(* The command engine: processCommand.                                     *)

RespEmpty == <<>>
RespOK == <<"O", "K">>
RespNil == <<"(", "n", "i", "l", ")">>
RespInvalidExpire ==
    <<"E", "R", "R", " ", "i", "n", "v", "a", "l", "i", "d", " ",
      "e", "x", "p", "i", "r", "e", " ", "t", "i", "m", "e">>

\* a command: type Command
Cmd(name, args) == [Name |-> name, Args |-> args]

\* the loop of case "HMSET" reads cmd.Args[i+1] for i = 1, 3, ... below
\* len(cmd.Args) (indexes from 0): it runs off the end of the slice, and
\* panics, exactly when the number of arguments is even
HMSetIndexOutOfRange(args) == Len(args) % 2 = 0

\* the map that loop builds: a later pair of the same field wins
HMSetValues(args) ==
    LET at == {i \in 2..Len(args) : i % 2 = 0 /\ i + 1 <= Len(args)}
        last(f) == CHOOSE i \in at : args[i] = f /\ \A j \in at : args[j] = f => j <= i
    IN  [f \in {args[i] : i \in at} |-> args[last(f) + 1]]

\* fmt.Sprintf("%v", result) of the []string of case "HMGET", result being
\* the fields and values of the map in the order the range loop visits them
RECURSIVE Flatten(_, _)
Flatten(values, order) ==
    IF Len(order) = 0 THEN <<>>
    ELSE <<Head(order), values[Head(order)]>> \o Flatten(values, Tail(order))

FormatPairs(values, order) == <<"[">> \o Join(Flatten(values, order)) \o <<"]">>

\* the orders the range loop of the command may take: over the map built by
\* HMSET, over the map returned to HMGET; no loop in the other commands
RangeOrders(st, cmd) ==
    IF cmd.Name = NameHMSET /\ Len(cmd.Args) >= 2 /\ ~HMSetIndexOutOfRange(cmd.Args)
    THEN Orders(DOMAIN HMSetValues(cmd.Args))
    ELSE IF cmd.Name = NameHMGET /\ Len(cmd.Args) >= 2
    THEN Orders(DOMAIN HMGet(st, cmd.Args[1], Tail(cmd.Args)))
    ELSE {<<>>}

Returns(st, resp) == [st |-> st, resp |-> resp, outcome |-> "return"]

\* a case "GET" that deletes the entry it finds expired
CaseGETDeletesExpired(st, key, now) ==
    LET got == Get(st, key, now) IN
    IF got.found THEN Returns(st, got.value)
    ELSE IF key \in DOMAIN st.data THEN Returns(Del(st, key), RespNil)
    ELSE Returns(st, RespNil)

\* case "GET" of processCommand
CaseGET(st, key, now) ==
    LET got == Get(st, key, now)
    IN  Returns(st, IF got.found THEN got.value ELSE RespNil)

\* processCommand at clock value now, its range loop taking the given order.
\* outcome: "return" with the response, "panic" for a run-time panic,
\* "exit" for os.Exit(0); the store is the one the call leaves behind
processCommand(st, cmd, now, order) ==
    LET args == cmd.Args
        n    == Len(cmd.Args)
    IN
    IF cmd.Name = NameGET /\ n = 1 THEN
        CaseGET(st, args[1], now)
    ELSE IF cmd.Name = NameSET /\ n >= 2 THEN
        Returns(Set(st, args[1], StoredValue(args[2])), RespOK)
    ELSE IF cmd.Name = NameEXPIRE /\ n >= 3 THEN
        LET seconds == Atoi(args[3])
        IN  IF ~seconds.ok THEN Returns(st, RespInvalidExpire)
            ELSE Returns(SetWithExpiration(st, args[1], args[2],
                                           SecondsToDuration(seconds.val), now),
                         RespOK)
    ELSE IF cmd.Name = NameDEL /\ n = 1 THEN
        Returns(Del(st, args[1]), RespOK)
    ELSE IF cmd.Name = NameHMSET /\ n >= 2 THEN
        IF HMSetIndexOutOfRange(args)
        THEN [st |-> st, resp |-> RespEmpty, outcome |-> "panic"]
        ELSE Returns(HMSet(st, args[1], HMSetValues(args), order), RespOK)
    ELSE IF cmd.Name = NameHMGET /\ n >= 2 THEN
        Returns(st, FormatPairs(HMGet(st, args[1], Tail(args)), order))
    ELSE IF cmd.Name = NameEXIT THEN
        [st |-> st, resp |-> RespEmpty, outcome |-> "exit"]
    ELSE Returns(st, RespEmpty)

----------------------------------------------------------------------------
(* Replay: loadAOF.                                                        *)

\* the loop of loadAOF over the lines of the file.  Each line is cut with
\* strings.Split; a line of fewer than two parts is skipped; the others go
\* through processCommand, whose response is dropped.  A panic or an exit
\* ends the process in the middle of the loop.  The order of a range loop
\* is some order: with writeAOFEnabled false the store a HMSET leaves does
\* not depend on it, and the response is not used.
RECURSIVE loadLines(_, _, _)
loadLines(st, lines, now) ==
    IF Len(lines) = 0 THEN [st |-> st, outcome |-> "return"]
    ELSE LET parts == Split(Head(lines)) IN
         IF Len(parts) < 2 THEN loadLines(st, Tail(lines), now)
         ELSE LET cmd == Cmd(parts[1], Tail(parts))
                  r   == processCommand(st, cmd, now,
                                        CHOOSE o \in RangeOrders(st, cmd) : TRUE)
              IN  IF r.outcome # "return" THEN [st |-> r.st, outcome |-> r.outcome]
                  ELSE loadLines(r.st, Tail(lines), now)

\* loadAOF when the file exists and is read without error: the gate is
\* closed, the lines are replayed, the gate is opened
loadAOF(st, now) ==
    LET r == loadLines([st EXCEPT !.writeAOFEnabled = FALSE], ScanLines(st.aofFile), now)
    IN  IF r.outcome # "return" THEN r
        ELSE [st |-> [r.st EXCEPT !.writeAOFEnabled = TRUE], outcome |-> "return"]

----------------------------------------------------------------------------
(* The state.                                                              *)

VARIABLES
    data,             \* RedisStore.data
    listData,         \* RedisStore.listData
    aofFile,          \* the content of redisstore.aof
    aofWriter,        \* the buffer of RedisStore.aofWriter
    writeAOFEnabled,  \* RedisStore.writeAOFEnabled
    clock,            \* time.Now()
    status,           \* "constructed", "serving", "panicked" or "exited"
    last,             \* the last call made and what it returned
    hist,             \* history: the mutating commands answered OK, each with
                      \* the clock value of its call
    pushed,           \* history: per key, the values pushed so far
    popped,           \* history: per key, the values popped so far
    mutex,            \* RedisStore.mutex: its writer (0 for none) and its readers
    pc,               \* per caller, the place its call has reached
    call,             \* per caller, the call it makes or has made last
    mutations,        \* history: the changes made to the maps, in the order made
    calls             \* history: the number of calls begun by concurrent callers

vars == <<data, listData, aofFile, aofWriter, writeAOFEnabled, clock, status,
          last, hist, pushed, popped, mutex, pc, call, mutations, calls>>

\* the state of the concurrent callers
callers == <<mutex, pc, call, mutations, calls>>

\* the store as a value
Store ==
    [data |-> data, listData |-> listData, aofFile |-> aofFile,
     aofWriter |-> aofWriter, writeAOFEnabled |-> writeAOFEnabled]

\* the store becomes st
Becomes(st) ==
    /\ data' = st.data
    /\ listData' = st.listData
    /\ aofFile' = st.aofFile
    /\ aofWriter' = st.aofWriter
    /\ writeAOFEnabled' = st.writeAOFEnabled

----------------------------------------------------------------------------
(* Inputs.                                                                 *)

k == <<"k">>
h == <<"h">>
f == <<"f">>
g == <<"g">>
hf == <<"h", ".", "f">>
v == <<"v">>
w == <<"w">>

\* the commands callers send: reads and writes of the scalar keys k and
\* h.f and of the field f of the hash h
Cmds ==
    { Cmd(NameGET, <<k>>), Cmd(NameGET, <<hf>>),
      Cmd(NameSET, <<k, v>>), Cmd(NameSET, <<k, w>>), Cmd(NameSET, <<hf, w>>),
      Cmd(NameEXPIRE, <<k, v, <<"0">>>>),
      Cmd(NameDEL, <<k>>),
      Cmd(NameHMSET, <<h, f, v>>) }

\* commands that are short of arguments, malformed or unknown, with a few
\* well-formed ones that fill the store
ErrorCmds ==
    { Cmd(NameGET, <<>>),
      Cmd(NameSET, <<>>), Cmd(NameSET, <<k>>), Cmd(NameSET, <<k, v>>),
      Cmd(NameEXPIRE, <<>>), Cmd(NameEXPIRE, <<k, v>>),
      Cmd(NameEXPIRE, <<k, v, <<"x">>>>),
      Cmd(NameDEL, <<>>), Cmd(NameDEL, <<k>>),
      Cmd(NameHMSET, <<>>), Cmd(NameHMSET, <<h>>), Cmd(NameHMSET, <<h, f>>),
      Cmd(NameHMSET, <<h, f, v>>), Cmd(NameHMSET, <<h, f, v, g>>),
      Cmd(NameHMGET, <<>>), Cmd(NameHMGET, <<h>>),
      Cmd(<<"F", "O", "O">>, <<k, v>>) }

\* commands that set and read entries with an expiration
ExpireCmds ==
    { Cmd(NameGET, <<k>>),
      Cmd(NameSET, <<k, w>>),
      Cmd(NameEXPIRE, <<k, v, <<"0">>>>), Cmd(NameEXPIRE, <<k, v, <<"1">>>>),
      Cmd(NameEXPIRE, <<k, v, <<"-", "1">>>>), Cmd(NameEXPIRE, <<k, v, <<"4">>>>),
      Cmd(NameEXPIRE, <<hf, v, <<"0">>>>),
      Cmd(NameHMGET, <<h, f>>) }

\* the keys and values of the list calls
ListKeys == {k, h}
ListValues == {v, w}

\* the content of redisstore.aof when the process starts: none on a first
\* run, the records of an earlier run otherwise
InitFiles == {<<>>, Line(NameSET, <<k, v>>)}

NoCall == [kind |-> "none"]

\* the concurrent callers: goroutines of handleConnection, and main
Procs == 1..NumProcs

----------------------------------------------------------------------------
(* The process: main, serving one call at a time.                          *)

\* after NewRedisStore
Init ==
    /\ \E content \in InitFiles : aofFile = content
    /\ data = EmptyMap
    /\ listData = EmptyMap
    /\ aofWriter = <<>>
    /\ writeAOFEnabled = FALSE
    /\ clock = Epoch
    /\ status = "constructed"
    /\ last = NoCall
    /\ hist = <<>>
    /\ pushed = EmptyMap
    /\ popped = EmptyMap
    /\ mutex = [writer |-> 0, readers |-> {}]
    /\ pc = [p \in Procs |-> "idle"]
    /\ call = [p \in Procs |-> [op |-> "none"]]
    /\ mutations = <<>>
    /\ calls = 0

\* time passes
Tick ==
    /\ clock < Epoch + MaxTicks
    /\ clock' = clock + 1
    /\ UNCHANGED <<data, listData, aofFile, aofWriter, writeAOFEnabled, status,
                   last, hist, pushed, popped, callers>>

StatusAfter(outcome) ==
    IF outcome = "panic" THEN "panicked"
    ELSE IF outcome = "exit" THEN "exited"
    ELSE "serving"

IsMutating(cmd) == cmd.Name \in {NameSET, NameEXPIRE, NameDEL, NameHMSET}

\* the history a replay of well-formed lines leaves: one entry per record
RECURSIVE Replayed(_, _)
Replayed(lines, now) ==
    IF Len(lines) = 0 THEN <<>>
    ELSE LET parts == Split(Head(lines))
             cmd   == Cmd(parts[1], Tail(parts))
         IN  (IF Len(parts) >= 2 /\ IsMutating(cmd)
              THEN <<[cmd |-> cmd, at |-> now]>> ELSE <<>>)
                 \o Replayed(Tail(lines), now)

\* main calls rs.loadAOF()
LoadAOF ==
    /\ status = "constructed"
    /\ LET r == loadAOF(Store, clock)
       IN  /\ Becomes(r.st)
           /\ status' = StatusAfter(r.outcome)
           /\ last' = [kind |-> "loadAOF", outcome |-> r.outcome]
           /\ hist' = Replayed(ScanLines(aofFile), clock)
    /\ UNCHANGED <<clock, pushed, popped, callers>>


\* a caller's line reaches processCommand
Command(cmd) ==
    /\ status = "serving"
    /\ IsMutating(cmd) => Len(hist) < MaxRecords
    /\ \E order \in RangeOrders(Store, cmd) :
          LET r == processCommand(Store, cmd, clock, order)
          IN  /\ Becomes(r.st)
              /\ status' = StatusAfter(r.outcome)
              /\ last' = [kind |-> "command", cmd |-> cmd, resp |-> r.resp,
                          outcome |-> r.outcome]
              /\ hist' = IF IsMutating(cmd) /\ r.outcome = "return" /\ r.resp = RespOK
                         THEN Append(hist, [cmd |-> cmd, at |-> clock])
                         ELSE hist
    /\ UNCHANGED <<clock, pushed, popped, callers>>

TotalPushed == Len(SliceAt(pushed, k)) + Len(SliceAt(pushed, h))

\* a caller calls store.ListPush
ListPushCall(key, value) ==
    /\ status = "serving"
    /\ TotalPushed < MaxPush
    /\ Becomes(ListPush(Store, key, value))
    /\ last' = [kind |-> "ListPush", key |-> key, value |-> value]
    /\ pushed' = MapSet(pushed, key, Append(SliceAt(pushed, key), value))
    /\ UNCHANGED <<clock, status, hist, popped, callers>>

\* a caller calls store.ListPop
ListPopCall(key) ==
    /\ status = "serving"
    /\ LET r == ListPop(Store, key)
       IN  /\ Becomes(r.st)
           /\ last' = [kind |-> "ListPop", key |-> key, value |-> r.value,
                       found |-> r.found]
           /\ popped' = IF r.found
                        THEN MapSet(popped, key, Append(SliceAt(popped, key), r.value))
                        ELSE popped
    /\ UNCHANGED <<clock, status, hist, pushed, callers>>

\* the process with the commands of the scalar keys
Next ==
    \/ Tick
    \/ LoadAOF
    \/ \E cmd \in Cmds : Command(cmd)

Spec == Init /\ [][Next]_vars

\* the process with the malformed commands, and the list calls
NextError ==
    \/ LoadAOF
    \/ \E cmd \in ErrorCmds : Command(cmd)
    \/ \E key \in ListKeys, value \in ListValues : ListPushCall(key, value)

SpecError == Init /\ [][NextError]_vars

\* the process with the commands of expiring entries
NextExpire ==
    \/ Tick
    \/ LoadAOF
    \/ \E cmd \in ExpireCmds : Command(cmd)

SpecExpire == Init /\ [][NextExpire]_vars

\* the process with the list calls
NextList ==
    \/ LoadAOF
    \/ \E key \in ListKeys, value \in ListValues : ListPushCall(key, value)
    \/ \E key \in ListKeys : ListPopCall(key)

SpecList == Init /\ [][NextList]_vars

----------------------------------------------------------------------------
(* Replay equivalence.                                                     *)

AllKeys == {k, h, hf}
AllFields == {f, g}

\* the clock values from now on at which an observation can differ
LaterClocks == clock..(Epoch + MaxTicks + MaxInt + 1)

\* two stores that no caller can tell apart from now on: the same Get at
\* every later clock value, the same HMGet, the same sequence of ListPop
ObservablyEqual(a, b) ==
    \A key \in AllKeys \cup DOMAIN a.data \cup DOMAIN b.data :
        /\ \A t \in LaterClocks : Get(a, key, t) = Get(b, key, t)
        /\ \A field \in AllFields :
              HMGet(a, key, <<field>>) = HMGet(b, key, <<field>>)
        /\ SliceAt(a.listData, key) = SliceAt(b.listData, key)

\* the store a restart builds from the file as it is now
Restarted == loadAOF(NewRedisStore(aofFile), clock)

\* C1: in every state of the serving process, replaying the file into a fresh
\* store gives a store observably identical to the present one.
C1_ReplayEquivalent ==
    status = "serving" =>
        Restarted.outcome = "return" /\ ObservablyEqual(Restarted.st, Store)

----------------------------------------------------------------------------
(* Malformed commands.                                                     *)

KnownNames ==
    {NameGET, NameSET, NameEXPIRE, NameDEL, NameHMSET, NameHMGET, NameEXIT}

\* fewer arguments than the arity of the command
TooFewArgs(cmd) ==
    \/ cmd.Name = NameGET /\ Len(cmd.Args) < 1
    \/ cmd.Name = NameSET /\ Len(cmd.Args) < 2
    \/ cmd.Name = NameEXPIRE /\ Len(cmd.Args) < 3
    \/ cmd.Name = NameDEL /\ Len(cmd.Args) < 1
    \/ cmd.Name = NameHMSET /\ Len(cmd.Args) < 3
    \/ cmd.Name = NameHMGET /\ Len(cmd.Args) < 2

\* the empty response, or one that starts with ERR
IsErrorResponse(resp) ==
    resp = RespEmpty \/ (Len(resp) >= 3 /\ SubSeq(resp, 1, 3) = <<"E", "R", "R">>)

\* the step returned an error response and changed neither map nor the file
Rejected ==
    /\ last'.outcome = "return"
    /\ IsErrorResponse(last'.resp)
    /\ data' = data
    /\ listData' = listData
    /\ aofFile' = aofFile

\* C5: a command short of arguments, or of unknown name, returns an
\* empty/error response and leaves the scalar map, the list map and the file
\* unchanged.
C5_ShortCommandRejected ==
    [][\A cmd \in ErrorCmds :
          Command(cmd) /\ (TooFewArgs(cmd) \/ cmd.Name \notin KnownNames)
              => Rejected]_vars

\* the tokens after the key are not an even-length list of field/value pairs
OddPairs(cmd) == cmd.Name = NameHMSET /\ Len(cmd.Args) >= 2 /\ Len(cmd.Args) % 2 = 0

\* C6: processCommand returns a response for every command but EXIT, and a
\* HMSET whose field/value list is not even-length is answered with an error
\* response and changes neither the store nor the file.
C6_NeverCrashes ==
    [][\A cmd \in ErrorCmds :
          Command(cmd) /\ cmd.Name # NameEXIT
              => /\ last'.outcome = "return"
                 /\ status' = "serving"
                 /\ OddPairs(cmd) => Rejected]_vars

----------------------------------------------------------------------------
(* GET after SET, DEL, EXPIRE and HMSET.                                   *)

NotFound == [found |-> FALSE, value |-> <<>>]
Found(value) == [found |-> TRUE, value |-> value]

\* what GET says of a lookup
Shown(lookup) == IF lookup.found THEN lookup.value ELSE RespNil

\* the value of the most recent SET key v of the history when no DEL key
\* follows it
RECURSIVE MostRecentSet(_, _)
MostRecentSet(hs, key) ==
    IF Len(hs) = 0 THEN NotFound
    ELSE LET c == hs[Len(hs)].cmd IN
         IF c.Name = NameSET /\ c.Args[1] = key THEN Found(c.Args[2])
         ELSE IF c.Name = NameDEL /\ c.Args[1] = key THEN NotFound
         ELSE MostRecentSet(SubSeq(hs, 1, Len(hs) - 1), key)

\* the fields of a HMSET whose composite key is the given scalar key
FieldsAt(c, key) ==
    {field \in DOMAIN HMSetValues(c.Args) : CompositeKey(c.Args[1], field) = key}

\* the entry of key after the history, read at clock value now: that of the
\* most recent command that wrote or deleted the scalar entry key, a write
\* being SET key v, EXPIRE key v s (which is gone once now is past the call's
\* clock value plus the duration) or HMSET h .. field v .. with
\* h + "." + field = key
RECURSIVE MostRecentWrite(_, _, _)
MostRecentWrite(hs, key, now) ==
    IF Len(hs) = 0 THEN NotFound
    ELSE LET e == hs[Len(hs)]
             c == e.cmd
         IN
         IF c.Name = NameSET /\ c.Args[1] = key THEN Found(c.Args[2])
         ELSE IF c.Name = NameEXPIRE /\ c.Args[1] = key THEN
             IF now > e.at + SecondsToDuration(Atoi(c.Args[3]).val)
             THEN NotFound ELSE Found(c.Args[2])
         ELSE IF c.Name = NameDEL /\ c.Args[1] = key THEN NotFound
         ELSE IF c.Name = NameHMSET /\ FieldsAt(c, key) # {} THEN
             Found(HMSetValues(c.Args)[CHOOSE field \in FieldsAt(c, key) : TRUE])
         ELSE MostRecentWrite(SubSeq(hs, 1, Len(hs) - 1), key, now)

IsGet(cmd) == cmd.Name = NameGET /\ Len(cmd.Args) = 1
IsSet(cmd) == cmd.Name = NameSET /\ Len(cmd.Args) >= 2

\* C7 as claimed: GET k returns the value of the most recent SET k v when no
\* DEL k was applied after it, the nil sentinel when the most recent mutation
\* of k is DEL k or k was never set; after SET k v the scalar map holds v at k.
C7_GetMostRecentSet ==
    [][\A cmd \in Cmds :
          Command(cmd) =>
              /\ IsGet(cmd) => last'.resp = Shown(MostRecentSet(hist, cmd.Args[1]))
              /\ IsSet(cmd) => /\ cmd.Args[1] \in DOMAIN data'
                               /\ data'[cmd.Args[1]].value = cmd.Args[2]]_vars

\* C7 as amended: GET k returns the value of the most recent write of the
\* scalar entry k (SET k v, EXPIRE k v s, or a HMSET pair whose composite key
\* is k), and the nil sentinel when that write is an EXPIRE whose expiresAt
\* the clock has passed, when a DEL k came after it, or when there is no such
\* write; after SET k v the scalar map holds v at k.
C7_GetMostRecentWrite ==
    [][\A cmd \in Cmds :
          Command(cmd) =>
              /\ IsGet(cmd) =>
                    last'.resp = Shown(MostRecentWrite(hist, cmd.Args[1], clock))
              /\ IsSet(cmd) => /\ cmd.Args[1] \in DOMAIN data'
                               /\ data'[cmd.Args[1]].value = cmd.Args[2]]_vars

\* GET k has answered w after SET k v and SET k w
C7_Witness ==
    /\ status = "serving"
    /\ last = [kind |-> "command", cmd |-> Cmd(NameGET, <<k>>), resp |-> w,
               outcome |-> "return"]
    /\ \E i, j \in 1..Len(hist) :
          /\ i < j
          /\ hist[i].cmd = Cmd(NameSET, <<k, v>>)
          /\ hist[j].cmd = Cmd(NameSET, <<k, w>>)

----------------------------------------------------------------------------
(* Expiration.                                                             *)

\* the clock has passed the expiresAt of the entry at key
IsExpired(key) ==
    /\ key \in DOMAIN data
    /\ data[key].expiration # ZeroTime
    /\ clock > data[key].expiration

\* the response of HMGET for a mapping, in some order of its fields
IsFormatOf(resp, values) ==
    \E order \in Orders(DOMAIN values) : resp = FormatPairs(values, order)

\* C8: once the clock has passed an entry's expiresAt, GET of its key reports
\* not-found and HMGET returns it for no (key, field) whose composite key is
\* the entry's key.
C8_ExpiredAbsentForReads ==
    [][\A cmd \in ExpireCmds :
          Command(cmd) =>
              /\ (IsGet(cmd) /\ IsExpired(cmd.Args[1])) => last'.resp = RespNil
              /\ (cmd.Name = NameHMGET /\ Len(cmd.Args) >= 2) =>
                    LET all  == HMGet(Store, cmd.Args[1], Tail(cmd.Args))
                        live == {field \in DOMAIN all :
                                    ~IsExpired(CompositeKey(cmd.Args[1], field))}
                    IN  IsFormatOf(last'.resp, [field \in live |-> all[field]])]_vars

IsExpire(cmd) ==
    cmd.Name = NameEXPIRE /\ Len(cmd.Args) >= 3 /\ Atoi(cmd.Args[3]).ok

\* C9: EXPIRE k v s sets k to v with expiresAt = now + s seconds, and Get(k)
\* at clock value t reports found exactly when t <= expiresAt.
C9_ExpireBoundary ==
    /\ [][\A cmd \in ExpireCmds :
             (Command(cmd) /\ IsExpire(cmd)) =>
                 /\ cmd.Args[1] \in DOMAIN data'
                 /\ data'[cmd.Args[1]] =
                        [value |-> cmd.Args[2],
                         expiration |-> clock + Atoi(cmd.Args[3]).val * Second]]_vars
    /\ [](\A key \in DOMAIN data :
             data[key].expiration # ZeroTime =>
                 \A t \in LaterClocks :
                     Get(Store, key, t).found <=> t <= data[key].expiration)

----------------------------------------------------------------------------
(* Lists.                                                                  *)

\* C10: per key the values popped so far, followed by the list, are the
\* values pushed so far (the i-th successful ListPop returned the i-th value
\* pushed); ListPop of an absent or empty list returns found = false and
\* changes nothing; a key of the list map stays in the list map.
C10_ListsFIFO ==
    /\ [](\A key \in ListKeys :
             SliceAt(popped, key) \o SliceAt(listData, key) = SliceAt(pushed, key))
    /\ [][\A key \in ListKeys :
             ListPopCall(key) =>
                 /\ last'.found <=> Len(SliceAt(listData, key)) > 0
                 /\ ~last'.found => listData' = listData /\ data' = data]_vars
    /\ [][\A key \in DOMAIN listData : key \in DOMAIN listData']_vars

\* both values pushed at k have been popped, in the order pushed, and the
\* emptied list is still in the list map; the pop after that found nothing
C10_Witness ==
    /\ SliceAt(pushed, k) = <<v, w>>
    /\ SliceAt(popped, k) = <<v, w>>
    /\ k \in DOMAIN listData
    /\ listData[k] = <<>>
    /\ last = [kind |-> "ListPop", key |-> k, value |-> <<>>, found |-> FALSE]

----------------------------------------------------------------------------
(* Concurrent callers.  A call of a store method is a sequence of steps:   *)
(* the lock is taken, the body runs a statement at a time (writeAOF is     *)
(* WriteString, then the two halves of Flush: the write to the file and    *)
(* the reset of the buffer), the deferred unlock ends the call.            *)

\* a Lock that excludes nobody
CanLockAlways(p) == TRUE

\* sync.RWMutex.Lock returns once no writer and no reader holds the mutex
CanLock(p) == mutex.writer = 0 /\ mutex.readers = {}

\* sync.RWMutex.RLock returns once no writer holds the mutex
CanRLock(p) == mutex.writer = 0

\* caller p begins a call
Begin(p, c, at) ==
    /\ status = "serving"
    /\ pc[p] = "idle"
    /\ calls < MaxCalls
    /\ calls' = calls + 1
    /\ call' = [call EXCEPT ![p] = c]
    /\ pc' = [pc EXCEPT ![p] = at]
    /\ UNCHANGED <<data, listData, aofFile, aofWriter, writeAOFEnabled, clock,
                   status, last, hist, pushed, popped, mutex, mutations>>

CallSet(p, key, value) ==
    Begin(p, [op |-> "Set", key |-> key, value |-> StoredValue(value),
              todo |-> {}, command |-> <<>>, args |-> <<>>], "Lock")

CallSetWithExpiration(p, key, value, duration) ==
    Begin(p, [op |-> "SetWithExpiration", key |-> key, value |-> value,
              duration |-> duration, todo |-> {}, command |-> <<>>, args |-> <<>>],
          "Lock")

CallDel(p, key) ==
    Begin(p, [op |-> "Del", key |-> key, todo |-> {}, command |-> <<>>,
              args |-> <<>>], "Lock")

CallHMSet(p, key, values) ==
    Begin(p, [op |-> "HMSet", key |-> key, values |-> values,
              todo |-> DOMAIN values, command |-> <<>>, args |-> <<>>], "Lock")

CallListPush(p, key, value) ==
    Begin(p, [op |-> "ListPush", key |-> key, value |-> value], "Lock")

CallGet(p, key) == Begin(p, [op |-> "Get", key |-> key], "RLock")

\* r.mutex.Lock()
Lock(p) ==
    /\ pc[p] = "Lock"
    /\ CanLock(p)
    /\ mutex' = [mutex EXCEPT !.writer = p]
    /\ pc' = [pc EXCEPT ![p] = "body"]
    /\ UNCHANGED <<data, listData, aofFile, aofWriter, writeAOFEnabled, clock,
                   status, last, hist, pushed, popped, call, mutations, calls>>

\* the change of the scalar map is made, and the call to writeAOF is next
Stores(p, newData, command, args, todo) ==
    /\ data' = newData
    /\ mutations' = Append(mutations, [map |-> "data", command |-> command, args |-> args])
    /\ call' = [call EXCEPT ![p] =
                   [@ EXCEPT !.command = command, !.args = args, !.todo = todo]]
    /\ pc' = [pc EXCEPT ![p] = "writeAOF"]
    /\ UNCHANGED <<listData, aofFile, aofWriter, writeAOFEnabled, clock, status,
                   last, hist, pushed, popped, mutex, calls>>

\* Set: r.data[key] = value
SetStore(p) ==
    /\ pc[p] = "body"
    /\ call[p].op = "Set"
    /\ Stores(p, MapSet(data, call[p].key, call[p].value),
              NameSET, <<call[p].key, call[p].value.value>>, {})

\* SetWithExpiration: r.data[key] = StoredValue{value, time.Now().Add(duration)}
SetWithExpirationStore(p) ==
    /\ pc[p] = "body"
    /\ call[p].op = "SetWithExpiration"
    /\ Stores(p, MapSet(data, call[p].key,
                        [value |-> call[p].value,
                         expiration |-> clock + call[p].duration]),
              NameSET, <<call[p].key, call[p].value>>, {})

\* Del: delete(r.data, key)
DelStore(p) ==
    /\ pc[p] = "body"
    /\ call[p].op = "Del"
    /\ Stores(p, MapDel(data, call[p].key), NameDEL, <<call[p].key>>, {})

\* a HMSet that stores its fields through Set, which locks the mutex
HMSetStoreThroughSet(p) ==
    /\ pc[p] = "body"
    /\ call[p].op = "HMSet"
    /\ pc' = [pc EXCEPT ![p] = "Lock"]
    /\ UNCHANGED <<data, listData, aofFile, aofWriter, writeAOFEnabled, clock,
                   status, last, hist, pushed, popped, mutex, call, mutations, calls>>

\* HMSet: one round of the range loop, over a field not visited yet
HMSetStore(p) ==
    /\ pc[p] = "body"
    /\ call[p].op = "HMSet"
    /\ \E field \in call[p].todo :
          Stores(p, MapSet(data, CompositeKey(call[p].key, field),
                           StoredValue(call[p].values[field])),
                 NameHMSET, <<call[p].key, field, call[p].values[field]>>,
                 call[p].todo \ {field})

\* ListPush: r.listData[key] = append(r.listData[key], value)
ListPushStore(p) ==
    /\ pc[p] = "body"
    /\ call[p].op = "ListPush"
    /\ listData' = MapSet(listData, call[p].key,
                          Append(SliceAt(listData, call[p].key), call[p].value))
    /\ mutations' = Append(mutations, [map |-> "listData", command |-> <<>>,
                                       args |-> <<call[p].key, call[p].value>>])
    /\ pc' = [pc EXCEPT ![p] = "Unlock"]
    /\ UNCHANGED <<data, aofFile, aofWriter, writeAOFEnabled, clock, status,
                   last, hist, pushed, popped, mutex, call, calls>>

\* where a call goes on after writeAOF: round the loop of HMSet while fields
\* are left, to the deferred unlock otherwise
AfterWriteAOF(p) ==
    IF call[p].op = "HMSet" /\ call[p].todo # {} THEN "body" ELSE "Unlock"

\* writeAOF: the gate, and r.aofWriter.WriteString(line)
WriteAOFWriteString(p) ==
    /\ pc[p] = "writeAOF"
    /\ IF writeAOFEnabled
       THEN /\ aofWriter' = WriteString(aofWriter, Line(call[p].command, call[p].args))
            /\ pc' = [pc EXCEPT ![p] = "Flush"]
       ELSE /\ aofWriter' = aofWriter
            /\ pc' = [pc EXCEPT ![p] = AfterWriteAOF(p)]
    /\ UNCHANGED <<data, listData, aofFile, writeAOFEnabled, clock, status,
                   last, hist, pushed, popped, mutex, call, mutations, calls>>

\* writeAOF: r.aofWriter.Flush(), the buffer is written to the file
WriteAOFFlush(p) ==
    /\ pc[p] = "Flush"
    /\ aofFile' = FlushWrite(aofFile, aofWriter)
    /\ pc' = [pc EXCEPT ![p] = "Reset"]
    /\ UNCHANGED <<data, listData, aofWriter, writeAOFEnabled, clock, status,
                   last, hist, pushed, popped, mutex, call, mutations, calls>>

\* writeAOF: r.aofWriter.Flush(), the buffer is emptied
WriteAOFReset(p) ==
    /\ pc[p] = "Reset"
    /\ aofWriter' = <<>>
    /\ pc' = [pc EXCEPT ![p] = AfterWriteAOF(p)]
    /\ UNCHANGED <<data, listData, aofFile, writeAOFEnabled, clock, status,
                   last, hist, pushed, popped, mutex, call, mutations, calls>>

\* defer r.mutex.Unlock()
Unlock(p) ==
    /\ pc[p] = "Unlock"
    /\ mutex' = [mutex EXCEPT !.writer = IF @ = p THEN 0 ELSE @]
    /\ pc' = [pc EXCEPT ![p] = "idle"]
    /\ UNCHANGED <<data, listData, aofFile, aofWriter, writeAOFEnabled, clock,
                   status, last, hist, pushed, popped, call, mutations, calls>>

\* Get: r.mutex.RLock()
RLock(p) ==
    /\ pc[p] = "RLock"
    /\ CanRLock(p)
    /\ mutex' = [mutex EXCEPT !.readers = @ \cup {p}]
    /\ pc' = [pc EXCEPT ![p] = "read"]
    /\ UNCHANGED <<data, listData, aofFile, aofWriter, writeAOFEnabled, clock,
                   status, last, hist, pushed, popped, call, mutations, calls>>

\* Get: the lookup, whose result the call returns
GetRead(p) ==
    /\ pc[p] = "read"
    /\ call[p].op = "Get"
    /\ call' = [call EXCEPT ![p] =
                   [op |-> "Get", key |-> call[p].key,
                    result |-> Get(Store, call[p].key, clock)]]
    /\ pc' = [pc EXCEPT ![p] = "RUnlock"]
    /\ UNCHANGED <<data, listData, aofFile, aofWriter, writeAOFEnabled, clock,
                   status, last, hist, pushed, popped, mutex, mutations, calls>>

\* Get: defer r.mutex.RUnlock()
RUnlock(p) ==
    /\ pc[p] = "RUnlock"
    /\ mutex' = [mutex EXCEPT !.readers = @ \ {p}]
    /\ pc' = [pc EXCEPT ![p] = "idle"]
    /\ UNCHANGED <<data, listData, aofFile, aofWriter, writeAOFEnabled, clock,
                   status, last, hist, pushed, popped, call, mutations, calls>>

\* the callers of the concurrent process
ConcProcs == {1, 2}

\* the field/value map a caller passes to HMSet
ConcHash == [field \in {f, g} |-> IF field = f THEN v ELSE w]

\* the serving process with two concurrent callers of the store's methods
NextConcurrent ==
    \/ LoadAOF
    \/ \E p \in ConcProcs, value \in {v, w} : CallSet(p, k, value)
    \/ \E p \in ConcProcs : CallSetWithExpiration(p, k, v, Second)
    \/ \E p \in ConcProcs : CallDel(p, k)
    \/ \E p \in ConcProcs : CallHMSet(p, h, ConcHash)
    \/ \E p \in ConcProcs : CallListPush(p, k, v)
    \/ \E p \in ConcProcs : CallGet(p, k)
    \/ \E p \in ConcProcs :
          \/ Lock(p)
          \/ SetStore(p)
          \/ SetWithExpirationStore(p)
          \/ DelStore(p)
          \/ HMSetStore(p)
          \/ ListPushStore(p)
          \/ WriteAOFWriteString(p)
          \/ WriteAOFFlush(p)
          \/ WriteAOFReset(p)
          \/ Unlock(p)
          \/ RLock(p)
          \/ GetRead(p)
          \/ RUnlock(p)

\* the process starts on an empty file
InitEmpty == Init /\ aofFile = <<>>

SpecConcurrent == InitEmpty /\ [][NextConcurrent]_vars

\* the key of caller p, different for each caller
KeyOf(p) == <<"k", DigitChars[p + 1]>>

\* caller p makes its one call, Set of its own key
CallSetOnce(p, value) ==
    /\ status = "serving"
    /\ pc[p] = "idle"
    /\ call[p].op = "none"
    /\ calls' = calls + 1
    /\ call' = [call EXCEPT ![p] =
                   [op |-> "Set", key |-> KeyOf(p), value |-> StoredValue(value),
                    todo |-> {}, command |-> <<>>, args |-> <<>>]]
    /\ pc' = [pc EXCEPT ![p] = "Lock"]
    /\ UNCHANGED <<data, listData, aofFile, aofWriter, writeAOFEnabled, clock,
                   status, last, hist, pushed, popped, mutex, mutations>>

\* the serving process with NumProcs callers, each making one Set of its key
NextSets ==
    \/ LoadAOF
    \/ \E p \in Procs, value \in {v, w} : CallSetOnce(p, value)
    \/ \E p \in Procs :
          \/ Lock(p)
          \/ SetStore(p)
          \/ WriteAOFWriteString(p)
          \/ WriteAOFFlush(p)
          \/ WriteAOFReset(p)
          \/ Unlock(p)

SpecSets == InitEmpty /\ [][NextSets]_vars

----------------------------------------------------------------------------
(* The file and the order of the mutations.                                *)

\* the records of the changes made to the scalar map, in the order made
RECURSIVE RecordsOf(_)
RecordsOf(ms) ==
    IF Len(ms) = 0 THEN <<>>
    ELSE (IF Head(ms).map = "data" THEN Line(Head(ms).command, Head(ms).args)
          ELSE <<>>) \o RecordsOf(Tail(ms))

IsPrefix(a, b) == Len(a) <= Len(b) /\ SubSeq(b, 1, Len(a)) = a

\* the records of the file, each cut into its name and arguments
FileRecords ==
    LET lines == ScanLines(aofFile)
    IN  [i \in 1..Len(lines) |-> Split(lines[i])]

\* the scalar key a record names
Target(rec) ==
    IF rec[1] = NameHMSET THEN CompositeKey(rec[2], rec[3]) ELSE rec[2]

\* the last of the records recs that names key agrees with the scalar map:
\* the key is there with the record's value after SET and HMSET, and is not
\* there after DEL; a key no record names is not in the map
LastRecordAgrees(recs, key) ==
    LET at == {i \in DOMAIN recs : Target(recs[i]) = key} IN
    IF at = {} THEN key \notin DOMAIN data
    ELSE LET rec == recs[CHOOSE i \in at : \A j \in at : j <= i] IN
         IF rec[1] = NameDEL THEN key \notin DOMAIN data
         ELSE /\ key \in DOMAIN data
              /\ data[key].value = rec[Len(rec)]

\* C2: the records are in the file in the order in which their mutations
\* were applied to the scalar map, and whenever no caller holds the exclusive
\* lock the last record that names a key agrees with the map at that key.
C2_LogOrderIsMutationOrder ==
    LET expected == RecordsOf(mutations) IN
    /\ IsPrefix(aofFile, expected)
    /\ mutex.writer = 0 =>
          /\ aofFile = expected
          /\ LET recs == FileRecords
             IN  \A key \in AllKeys \cup DOMAIN data : LastRecordAgrees(recs, key)

\* both callers have returned, caller 2 from Set(k, w) and then caller 1 from
\* Del(k), with a third mutation before them
C2_Witness ==
    /\ pc[1] = "idle" /\ pc[2] = "idle"
    /\ call[1].op = "Del" /\ call[2].op = "Set"
    /\ Len(mutations) = 3
    /\ mutations[2].command = NameSET /\ mutations[3].command = NameDEL
    /\ k \notin DOMAIN data

AllReturned == \A p \in Procs : call[p].op = "Set" /\ pc[p] = "idle"

\* the records of the callers' Sets, in the given order of the callers
RECURSIVE SetRecords(_)
SetRecords(order) ==
    IF Len(order) = 0 THEN <<>>
    ELSE Line(NameSET, <<call[Head(order)].key, call[Head(order)].value.value>>)
             \o SetRecords(Tail(order))

\* C3: after all the callers' Sets of distinct keys have returned, every key
\* is in the scalar map with its caller's value, and the file is exactly the
\* callers' SET records, whole, one per call, in the order in which the
\* mutations were applied.
C3_ConcurrentSets ==
    AllReturned =>
        /\ \A p \in Procs : KeyOf(p) \in DOMAIN data /\ data[KeyOf(p)] = call[p].value
        /\ Len(ScanLines(aofFile)) = NumProcs
        /\ \E order \in Orders(Procs) : aofFile = SetRecords(order)
        /\ aofFile = RecordsOf(mutations)

\* all callers have returned, and the last caller's record is not the last
C3_Witness ==
    /\ AllReturned
    /\ mutations[1].args[1] = KeyOf(NumProcs)
    /\ call[1].value.value = v /\ call[2].value.value = w

\* C4: with logging enabled, whenever no caller holds the exclusive lock the
\* write buffer is empty and every change made to the maps has its record in
\* the file.
C4_DurableWhenUnlocked ==
    (writeAOFEnabled /\ mutex.writer = 0) =>
        /\ aofWriter = <<>>
        /\ Len(ScanLines(aofFile)) = Len(mutations)

----------------------------------------------------------------------------
(* Hash fields: HMSET and HMGET.                                           *)

\* commands on the fields f and g of the hashes h and k
HashCmds ==
    { Cmd(NameHMSET, <<h, f, v>>), Cmd(NameHMSET, <<h, f, w>>),
      Cmd(NameHMSET, <<h, f, v, g, w>>), Cmd(NameHMSET, <<k, f, w>>),
      Cmd(NameHMGET, <<h, f>>), Cmd(NameHMGET, <<h, g>>),
      Cmd(NameHMGET, <<h, f, g>>), Cmd(NameHMGET, <<h, g, f, g>>),
      Cmd(NameHMGET, <<k, f, g>>) }

\* the process with the commands of the hashes
NextHash ==
    \/ LoadAOF
    \/ \E cmd \in HashCmds : Command(cmd)

SpecHash == Init /\ [][NextHash]_vars

\* the places of the fields in the arguments of HMSET key f1 v1 ... fn vn
FieldPlaces(args) == {i \in 2..(Len(args) - 1) : i % 2 = 0}

\* the value the history sets last for the field of the hash key
RECURSIVE LatestField(_, _, _)
LatestField(hs, key, field) ==
    IF Len(hs) = 0 THEN NotFound
    ELSE LET c  == hs[Len(hs)].cmd
             at == {i \in FieldPlaces(c.Args) : c.Args[i] = field}
         IN  IF c.Name = NameHMSET /\ c.Args[1] = key /\ at # {}
             THEN Found(c.Args[(CHOOSE i \in at : TRUE) + 1])
             ELSE LatestField(SubSeq(hs, 1, Len(hs) - 1), key, field)

\* the mapping of the requested fields the history has set under key
ExpectedFields(hs, key, fields) ==
    LET set == {fields[i] : i \in {j \in 1..Len(fields) :
                                      LatestField(hs, key, fields[j]).found}}
    IN  [field \in set |-> LatestField(hs, key, field).value]

\* C11: HMGET h g1 ... gm returns the mapping gi -> value of exactly the
\* requested fields that an earlier HMSET h ... set, each with the value set
\* last for it, omits the fields never set, and is not an error.
C11_HMGetMapping ==
    [][\A cmd \in HashCmds :
          (Command(cmd) /\ cmd.Name = NameHMGET) =>
              /\ last'.outcome = "return"
              /\ IsFormatOf(last'.resp,
                            ExpectedFields(hist, cmd.Args[1], Tail(cmd.Args)))]_vars

\* HMGET h f g has answered [f w] after HMSET h f v and HMSET h f w, the
\* field g of h never set while the field f of k is
C11_Witness ==
    /\ last = [kind |-> "command", cmd |-> Cmd(NameHMGET, <<h, f, g>>),
               resp |-> <<"[", "f", " ", "w", "]">>, outcome |-> "return"]
    /\ Len(hist) = 3
    /\ hist[1].cmd = Cmd(NameHMSET, <<k, f, w>>)
    /\ hist[2].cmd = Cmd(NameHMSET, <<h, f, v>>)
    /\ hist[3].cmd = Cmd(NameHMSET, <<h, f, w>>)

----------------------------------------------------------------------------
(* Commands with more arguments than their arity.                          *)

\* commands with one argument too many, with a few well-formed ones that
\* fill the store
ExtraCmds ==
    { Cmd(NameSET, <<k, v>>), Cmd(NameSET, <<k, w, v>>), Cmd(NameSET, <<h, v, w>>),
      Cmd(NameEXPIRE, <<k, v, <<"0">>, w>>), Cmd(NameEXPIRE, <<h, w, <<"1">>, <<"0">>>>),
      Cmd(NameGET, <<k>>), Cmd(NameGET, <<k, h>>),
      Cmd(NameDEL, <<k>>), Cmd(NameDEL, <<k, h>>) }

\* the process with the commands of too many arguments
NextExtra ==
    \/ LoadAOF
    \/ \E cmd \in ExtraCmds : Command(cmd)

SpecExtra == Init /\ [][NextExtra]_vars

\* more arguments than the arity of the command
TooManyArgs(cmd) ==
    \/ cmd.Name = NameSET /\ Len(cmd.Args) > 2
    \/ cmd.Name = NameEXPIRE /\ Len(cmd.Args) > 3
    \/ cmd.Name = NameGET /\ Len(cmd.Args) > 1
    \/ cmd.Name = NameDEL /\ Len(cmd.Args) > 1

\* C12: a command with arguments beyond its arity (SET with more than two,
\* EXPIRE with more than three, GET or DEL with more than one) is answered
\* with an error response and changes neither the maps nor the file.
C12_ExtraArgsRejected ==
    [][\A cmd \in ExtraCmds : (Command(cmd) /\ TooManyArgs(cmd)) => Rejected]_vars

----------------------------------------------------------------------------
(* Replay of a file with bad lines.                                        *)

\* lines a file may hold: records of well-formed commands, and lines that
\* are blank, have no arguments, too few arguments or an unknown name
GoodLines ==
    { NameSET \o <<SP>> \o Join(<<k, v>>),
      NameDEL \o <<SP>> \o Join(<<k>>),
      NameHMSET \o <<SP>> \o Join(<<h, f, v>>) }

BadLines ==
    { <<>>,
      NameSET,
      NameEXIT,
      NameSET \o <<SP>> \o Join(<<k>>),
      NameHMSET \o <<SP>> \o Join(<<h, f>>),
      NameEXIT \o <<SP>> \o Join(<<<<"x">>>>),
      <<"F", "O", "O">> \o <<SP>> \o Join(<<k, v>>) }

\* the content of a file of the given lines, each ended by a newline
RECURSIVE FileOf(_)
FileOf(lines) ==
    IF Len(lines) = 0 THEN <<>>
    ELSE Head(lines) \o <<NL>> \o FileOf(Tail(lines))

\* the files of at most MaxLines lines
ReplayFiles ==
    {FileOf(lines) : lines \in UNION {[1..n -> GoodLines \cup BadLines] : n \in 0..MaxLines}}

\* after NewRedisStore, over one of the given files
InitOver(files) ==
    /\ \E content \in files : aofFile = content
    /\ data = EmptyMap
    /\ listData = EmptyMap
    /\ aofWriter = <<>>
    /\ writeAOFEnabled = FALSE
    /\ clock = Epoch
    /\ status = "constructed"
    /\ last = NoCall
    /\ hist = <<>>
    /\ pushed = EmptyMap
    /\ popped = EmptyMap
    /\ mutex = [writer |-> 0, readers |-> {}]
    /\ pc = [p \in Procs |-> "idle"]
    /\ call = [p \in Procs |-> [op |-> "none"]]
    /\ mutations = <<>>
    /\ calls = 0

\* after NewRedisStore, over a file that was not written by this program alone
InitReplay == InitOver(ReplayFiles)

\* the commands sent after the replay
ReplayCmds == {Cmd(NameGET, <<k>>), Cmd(NameSET, <<k, w>>), Cmd(NameHMGET, <<h, f>>)}

\* the process started over such a file
NextReplay ==
    \/ LoadAOF
    \/ \E cmd \in ReplayCmds : Command(cmd)

SpecReplay == InitReplay /\ [][NextReplay]_vars

\* the line is blank, has no command and arguments to parse, names an
\* unrecognized command or has the wrong number of arguments
IsBadLine(line) ==
    LET parts == Split(line)
        cmd   == Cmd(parts[1], Tail(parts))
    IN  \/ Len(line) = 0
        \/ Len(parts) < 2
        \/ cmd.Name \notin KnownNames
        \/ cmd.Name = NameEXIT
        \/ TooFewArgs(cmd)
        \/ TooManyArgs(cmd)

\* the lines that are not bad, in their order
RECURSIVE WithoutBadLines(_)
WithoutBadLines(lines) ==
    IF Len(lines) = 0 THEN <<>>
    ELSE (IF IsBadLine(Head(lines)) THEN <<>> ELSE <<Head(lines)>>)
             \o WithoutBadLines(Tail(lines))

\* C13: for every content of the file, loadAOF returns without error and
\* without ending the process, and leaves the maps that the replay of the
\* file without its bad lines leaves: a bad line is skipped without a change
\* of the store and the lines after it are replayed.
C13_ReplayToleratesBadLines ==
    [][LoadAOF =>
          /\ last'.outcome = "return"
          /\ status' = "serving"
          /\ LET good == loadLines(Store, WithoutBadLines(ScanLines(aofFile)), clock)
             IN  /\ data' = good.st.data
                 /\ listData' = good.st.listData]_vars

----------------------------------------------------------------------------
(* Startup: loadAOF when redisstore.aof is there and when it is not.       *)

\* loadAOF when os.Open fails with an error that os.IsNotExist recognises
\* (the path was removed after NewRedisStore created it): the gate has been
\* closed, and nil is returned
loadAOFNotExist(st) ==
    [st |-> [st EXCEPT !.writeAOFEnabled = FALSE], outcome |-> "return"]

\* main calls rs.loadAOF(), and the file is not there
LoadAOFNotExist ==
    /\ status = "constructed"
    /\ LET r == loadAOFNotExist(Store)
       IN  /\ Becomes(r.st)
           /\ status' = StatusAfter(r.outcome)
           /\ last' = [kind |-> "loadAOF", outcome |-> r.outcome]
           /\ hist' = <<>>
    /\ UNCHANGED <<clock, pushed, popped, callers>>

\* the commands sent after startup: one of each mutating command, and a read
StartupCmds ==
    { Cmd(NameSET, <<k, v>>), Cmd(NameEXPIRE, <<k, w, <<"1">>>>), Cmd(NameDEL, <<k>>),
      Cmd(NameHMSET, <<h, f, v>>), Cmd(NameGET, <<k>>) }

\* the process from its start, the file there or not
NextStartup ==
    \/ LoadAOF
    \/ LoadAOFNotExist
    \/ \E cmd \in StartupCmds : Command(cmd)

SpecStartup == Init /\ [][NextStartup]_vars

\* the command is a mutating one and was answered OK
Accepted(cmd) == IsMutating(cmd) /\ last'.outcome = "return" /\ last'.resp = RespOK

\* C14: once loadAOF has returned without error, the file there or not,
\* logging is enabled, and every mutating command accepted afterwards appends
\* to the file.
C14_LoggingEnabledAfterLoad ==
    /\ [](status = "serving" => writeAOFEnabled)
    /\ [][\A cmd \in StartupCmds :
             (Command(cmd) /\ Accepted(cmd)) =>
                 /\ Len(aofFile') > Len(aofFile)
                 /\ IsPrefix(aofFile, aofFile')]_vars

----------------------------------------------------------------------------
(* The SET-only variant (src/redis.go): the scalar map holds strings,      *)
(* writeAOF has no gate, and replay is processAOFCommands, which cuts each *)
(* line with parseCommand and writes the map itself.  It runs in the same  *)
(* variables: data is its map, aofFile and aofWriter its file and buffer,  *)
(* and status is "basic" once its loadAOF has returned.                    *)

TAB == "\t"
FF == "\f"

\* unicode.IsSpace for the characters of the model
IsSpace(c) == c \in {SP, TAB, NL, CR, FF}

\* strings.Fields: the maximal runs of characters that are not white space
RECURSIVE Fields(_)
Fields(s) ==
    IF Len(s) = 0 THEN <<>>
    ELSE IF IsSpace(Head(s)) THEN Fields(Tail(s))
    ELSE LET ends == {i \in 1..Len(s) : IsSpace(s[i])}
             stop == IF ends = {} THEN Len(s) + 1
                     ELSE CHOOSE i \in ends : \A j \in ends : i <= j
         IN  <<SubSeq(s, 1, stop - 1)>> \o Fields(SubSeq(s, stop, Len(s)))

LowerChars == <<"a", "b", "c", "d", "e", "f", "g", "h", "i", "j", "k", "l", "m",
                "n", "o", "p", "q", "r", "s", "t", "u", "v", "w", "x", "y", "z">>
UpperChars == <<"A", "B", "C", "D", "E", "F", "G", "H", "I", "J", "K", "L", "M",
                "N", "O", "P", "Q", "R", "S", "T", "U", "V", "W", "X", "Y", "Z">>

\* strings.ToUpper
ToUpper(s) ==
    [i \in 1..Len(s) |->
        IF \E j \in 1..26 : LowerChars[j] = s[i]
        THEN UpperChars[CHOOSE j \in 1..26 : LowerChars[j] = s[i]]
        ELSE s[i]]

\* parseCommand; Command{} has the empty name and no arguments
parseCommand(input) ==
    LET parts == Fields(input) IN
    IF Len(parts) = 0 THEN Cmd(<<>>, <<>>)
    ELSE Cmd(ToUpper(parts[1]), Tail(parts))

\* NewRedisStore of src/redis.go over a file of the given content
BasicNewRedisStore(content) ==
    [data |-> EmptyMap, aofFile |-> content, aofWriter |-> <<>>]

\* writeAOF of src/redis.go: no gate
BasicWriteAOF(st, command, args) ==
    LET buf == WriteString(st.aofWriter, Line(command, args))
    IN  [st EXCEPT !.aofFile = FlushWrite(st.aofFile, buf), !.aofWriter = <<>>]

\* Set of src/redis.go
BasicSet(st, key, val) ==
    BasicWriteAOF([st EXCEPT !.data = MapSet(@, key, val)], NameSET, <<key, val>>)

\* Get of src/redis.go
BasicGet(st, key) ==
    IF key \notin DOMAIN st.data THEN [value |-> <<>>, found |-> FALSE]
    ELSE [value |-> st.data[key], found |-> TRUE]

BasicRespNil == <<"n", "i", "l">>

\* processCommand of src/redis.go
BasicProcessCommand(cmd, st) ==
    IF cmd.Name = NameGET /\ Len(cmd.Args) = 1 THEN
        LET got == BasicGet(st, cmd.Args[1])
        IN  [st |-> st, resp |-> IF got.found THEN got.value ELSE BasicRespNil]
    ELSE IF cmd.Name = NameSET /\ Len(cmd.Args) >= 2 THEN
        [st |-> BasicSet(st, cmd.Args[1], cmd.Args[2]), resp |-> RespOK]
    ELSE [st |-> st, resp |-> RespEmpty]

\* processAOFCommands over the lines of the file: an empty line is skipped,
\* a SET of two arguments or more is written to the map, any other line is
\* passed over
RECURSIVE processAOFCommands(_, _)
processAOFCommands(st, lines) ==
    IF Len(lines) = 0 THEN st
    ELSE LET command == parseCommand(Head(lines)) IN
         IF Len(Head(lines)) > 0 /\ command.Name = NameSET /\ Len(command.Args) >= 2
         THEN processAOFCommands(
                  [st EXCEPT !.data = MapSet(@, command.Args[1], command.Args[2])],
                  Tail(lines))
         ELSE processAOFCommands(st, Tail(lines))

\* loadAOF of src/redis.go when the file is there and read without error
BasicLoadAOF(st) == processAOFCommands(st, ScanLines(st.aofFile))

\* the store of the variant as a value
BasicStore == [data |-> data, aofFile |-> aofFile, aofWriter |-> aofWriter]

\* main of src/redis.go calls rs.loadAOF()
BasicLoad ==
    /\ status = "constructed"
    /\ LET st == BasicLoadAOF(BasicStore)
       IN  /\ data' = st.data
           /\ aofFile' = st.aofFile
           /\ aofWriter' = st.aofWriter
    /\ status' = "basic"
    /\ last' = [kind |-> "loadAOF", outcome |-> "return"]
    /\ UNCHANGED <<listData, writeAOFEnabled, clock, hist, pushed, popped, callers>>

\* the command cmd, cut from the line of the given front end, reaches
\* processCommand of src/redis.go
BasicCommand(kind, line, cmd) ==
    /\ status = "basic"
    /\ cmd.Name = NameSET => Len(hist) < MaxRecords
    /\ LET r == BasicProcessCommand(cmd, BasicStore)
       IN  /\ data' = r.st.data
           /\ aofFile' = r.st.aofFile
           /\ aofWriter' = r.st.aofWriter
           /\ last' = [kind |-> kind, line |-> line, cmd |-> cmd, resp |-> r.resp]
           /\ hist' = IF cmd.Name = NameSET /\ r.resp = RespOK
                      THEN Append(hist, [cmd |-> cmd, at |-> clock])
                      ELSE hist
    /\ UNCHANGED <<listData, writeAOFEnabled, clock, status, pushed, popped, callers>>

\* handleConnection of src/redis.go: a line of a connection
handleConnection(line) == BasicCommand("connection", line, parseCommand(line))

\* inputCapture: a line of standard input, cut at each single space
inputCapture(line) ==
    LET parts == Split(line)
    IN  BasicCommand("input", line, Cmd(ToUpper(parts[1]), Tail(parts)))

----------------------------------------------------------------------------
(* Replay and the file it reads, in both variants.                         *)

\* lines of text a connection of the SET-only variant sends after the replay
VariantLines ==
    { NameGET \o <<SP>> \o Join(<<k>>), NameSET \o <<SP>> \o Join(<<k, w>>) }

\* either variant started over a file of good and bad lines
NextVariants ==
    \/ LoadAOF
    \/ \E cmd \in ReplayCmds : Command(cmd)
    \/ BasicLoad
    \/ \E line \in VariantLines : handleConnection(line)

SpecVariants == InitReplay /\ [][NextVariants]_vars

\* the first n of the lines
FirstLines(lines, n) == SubSeq(lines, 1, n)

\* C15: from the start of loadAOF until it returns, in both variants and for
\* every content of the file, the file and the write buffer are what they
\* were: after each line replayed, and when loadAOF is left.
C15_ReplayNeverAppends ==
    [][LET lines == ScanLines(aofFile) IN
       /\ (status' # "basic" /\ LoadAOF) =>
             /\ aofFile' = aofFile /\ aofWriter' = aofWriter
             /\ \A n \in 0..Len(lines) :
                   LET r == loadLines([Store EXCEPT !.writeAOFEnabled = FALSE],
                                      FirstLines(lines, n), clock)
                   IN  r.st.aofFile = aofFile /\ r.st.aofWriter = aofWriter
       /\ (status' = "basic" /\ BasicLoad) =>
             /\ aofFile' = aofFile /\ aofWriter' = aofWriter
             /\ \A n \in 0..Len(lines) :
                   LET st == processAOFCommands(BasicStore, FirstLines(lines, n))
                   IN  st.aofFile = aofFile /\ st.aofWriter = aofWriter]_vars

\* loadAOF has returned from the replay of two records, which are in the map,
\* and the file is the two records
C15_Witness ==
    /\ status = "serving"
    /\ last = [kind |-> "loadAOF", outcome |-> "return"]
    /\ aofFile = Line(NameSET, <<k, v>>) \o Line(NameHMSET, <<h, f, v>>)
    /\ k \in DOMAIN data /\ CompositeKey(h, f) \in DOMAIN data

----------------------------------------------------------------------------
(* The record of each mutating command.                                    *)

\* one mutating command of each kind, DEL of a key that may be there and of
\* one that never is, HMSET of one pair and of two
RecordCmds ==
    { Cmd(NameSET, <<k, v>>), Cmd(NameDEL, <<k>>), Cmd(NameDEL, <<g>>),
      Cmd(NameEXPIRE, <<k, w, <<"1">>>>),
      Cmd(NameHMSET, <<h, f, v>>), Cmd(NameHMSET, <<h, f, w, g, v>>),
      Cmd(NameGET, <<k>>) }

\* the process with these commands
NextRecords ==
    \/ LoadAOF
    \/ \E cmd \in RecordCmds : Command(cmd)

SpecRecords == Init /\ [][NextRecords]_vars

\* C16: with logging enabled, an accepted mutating command appends exactly one
\* record to the file, the record of its own name and arguments: SET k v,
\* DEL k (the key there or not), EXPIRE k v s, HMSET h f1 v1 ... fn vn.
C16_OneRecordPerCommand ==
    [][\A cmd \in RecordCmds :
          (writeAOFEnabled /\ Command(cmd) /\ Accepted(cmd)) =>
              aofFile' = aofFile \o Line(cmd.Name, cmd.Args)]_vars

----------------------------------------------------------------------------
(* Reads.                                                                  *)

\* reads of entries and fields that may be expired, and the writes that make
\* them
ReadCmds ==
    { Cmd(NameGET, <<k>>), Cmd(NameHMGET, <<h, f, g>>),
      Cmd(NameEXPIRE, <<k, v, <<"0">>>>), Cmd(NameEXPIRE, <<hf, w, <<"0">>>>) }

\* the process with these commands, and a list
NextReads ==
    \/ Tick
    \/ LoadAOF
    \/ \E cmd \in ReadCmds : Command(cmd)
    \/ ListPushCall(k, v)

SpecReads == Init /\ [][NextReads]_vars

IsRead(cmd) ==
    \/ cmd.Name = NameGET /\ Len(cmd.Args) = 1
    \/ cmd.Name = NameHMGET /\ Len(cmd.Args) >= 2

----------------------------------------------------------------------------
(* The lock discipline: every method of the store called concurrently,     *)
(* and loadAOF run a call at a time by main before any caller is served.   *)

CallHMGet(p, key, fields) ==
    Begin(p, [op |-> "HMGet", key |-> key, fields |-> fields], "RLock")

CallListPop(p, key) == Begin(p, [op |-> "ListPop", key |-> key], "Lock")

\* HMGet: the loop over the fields, whose result the call returns
HMGetRead(p) ==
    /\ pc[p] = "read"
    /\ call[p].op = "HMGet"
    /\ call' = [call EXCEPT ![p] =
                   [op |-> "HMGet", key |-> call[p].key, fields |-> call[p].fields,
                    result |-> HMGet(Store, call[p].key, call[p].fields)]]
    /\ pc' = [pc EXCEPT ![p] = "RUnlock"]
    /\ UNCHANGED <<data, listData, aofFile, aofWriter, writeAOFEnabled, clock,
                   status, last, hist, pushed, popped, mutex, mutations, calls>>

\* ListPop: the head of the list is taken, when there is one
ListPopStore(p) ==
    /\ pc[p] = "body"
    /\ call[p].op = "ListPop"
    /\ LET r == ListPop(Store, call[p].key)
       IN  /\ listData' = r.st.listData
           /\ call' = [call EXCEPT ![p] =
                          [op |-> "ListPop", key |-> call[p].key,
                           value |-> r.value, found |-> r.found]]
           /\ mutations' = IF r.found
                           THEN Append(mutations, [map |-> "listData", command |-> <<>>,
                                                   args |-> <<call[p].key>>])
                           ELSE mutations
    /\ pc' = [pc EXCEPT ![p] = "Unlock"]
    /\ UNCHANGED <<data, aofFile, aofWriter, writeAOFEnabled, clock, status,
                   last, hist, pushed, popped, mutex, calls>>

\* the caller that is main
Main == 1

\* what processCommand does with a command, as far as the store is called:
\* the call it makes and where the call starts, a panic, an exit, or nothing
StoreCall(cmd) ==
    LET args == cmd.Args
        n    == Len(cmd.Args)
        writer(c) == [kind |-> "call", call |-> c, at |-> "Lock"]
        reader(c) == [kind |-> "call", call |-> c, at |-> "RLock"]
    IN
    IF cmd.Name = NameGET /\ n = 1 THEN
        reader([op |-> "Get", key |-> args[1]])
    ELSE IF cmd.Name = NameSET /\ n >= 2 THEN
        writer([op |-> "Set", key |-> args[1], value |-> StoredValue(args[2]),
                todo |-> {}, command |-> <<>>, args |-> <<>>])
    ELSE IF cmd.Name = NameEXPIRE /\ n >= 3 THEN
        IF ~Atoi(args[3]).ok THEN [kind |-> "none"]
        ELSE writer([op |-> "SetWithExpiration", key |-> args[1], value |-> args[2],
                     duration |-> SecondsToDuration(Atoi(args[3]).val),
                     todo |-> {}, command |-> <<>>, args |-> <<>>])
    ELSE IF cmd.Name = NameDEL /\ n = 1 THEN
        writer([op |-> "Del", key |-> args[1], todo |-> {}, command |-> <<>>,
                args |-> <<>>])
    ELSE IF cmd.Name = NameHMSET /\ n >= 2 THEN
        IF HMSetIndexOutOfRange(args) THEN [kind |-> "panic"]
        ELSE writer([op |-> "HMSet", key |-> args[1], values |-> HMSetValues(args),
                     todo |-> DOMAIN HMSetValues(args), command |-> <<>>,
                     args |-> <<>>])
    ELSE IF cmd.Name = NameHMGET /\ n >= 2 THEN
        reader([op |-> "HMGet", key |-> args[1], fields |-> Tail(args)])
    ELSE IF cmd.Name = NameEXIT THEN [kind |-> "exit"]
    ELSE [kind |-> "none"]

\* loadAOF begins: the gate is closed and the file is opened and scanned
ReplayStart ==
    /\ status = "constructed"
    /\ writeAOFEnabled' = FALSE
    /\ status' = "replaying"
    /\ last' = [kind |-> "replaying", lines |-> ScanLines(aofFile)]
    /\ UNCHANGED <<data, listData, aofFile, aofWriter, clock, hist, pushed, popped,
                   callers>>

\* loadAOF reads the next line and hands it to processCommand, which calls
\* the store, panics, exits or returns at once
ReplayLine ==
    /\ status = "replaying"
    /\ pc[Main] = "idle"
    /\ Len(last.lines) > 0
    /\ \E parts \in {Split(Head(last.lines))} :
       \E does \in {IF Len(parts) < 2 THEN [kind |-> "none"]
                    ELSE StoreCall(Cmd(parts[1], Tail(parts)))} :
           /\ status' = IF does.kind = "panic" THEN "panicked"
                        ELSE IF does.kind = "exit" THEN "exited"
                        ELSE status
           /\ call' = IF does.kind = "call" THEN [call EXCEPT ![Main] = does.call]
                      ELSE call
           /\ pc' = IF does.kind = "call" THEN [pc EXCEPT ![Main] = does.at] ELSE pc
    /\ last' = [kind |-> "replaying", lines |-> Tail(last.lines)]
    /\ UNCHANGED <<data, listData, aofFile, aofWriter, writeAOFEnabled, clock,
                   hist, pushed, popped, mutex, mutations, calls>>

\* loadAOF has read the last line: the gate is opened, and nil is returned
ReplayEnd ==
    /\ status = "replaying"
    /\ pc[Main] = "idle"
    /\ Len(last.lines) = 0
    /\ writeAOFEnabled' = TRUE
    /\ status' = "serving"
    /\ last' = [kind |-> "loadAOF", outcome |-> "return"]
    /\ UNCHANGED <<data, listData, aofFile, aofWriter, clock, hist, pushed, popped,
                   callers>>

\* the files replayed: none, records of writes, lines that read, and lines
\* that end the process
LockFiles ==
    { <<>>,
      FileOf(<<NameSET \o <<SP>> \o Join(<<k, v>>),
               NameGET \o <<SP>> \o Join(<<k>>),
               NameDEL \o <<SP>> \o Join(<<k>>)>>),
      FileOf(<<NameHMSET \o <<SP>> \o Join(<<h, f, v, g, w>>),
               NameHMGET \o <<SP>> \o Join(<<h, f>>),
               NameEXPIRE \o <<SP>> \o Join(<<k, v, <<"1">>>>)>>),
      FileOf(<<NameSET \o <<SP>> \o Join(<<k, v>>),
               NameEXIT \o <<SP>> \o Join(<<<<"x">>>>)>>),
      FileOf(<<NameHMSET \o <<SP>> \o Join(<<h, f>>)>>) }

InitLocks == InitOver(LockFiles)

\* a caller begins a call of one of the methods of the store
StartCall(p) ==
    /\ calls < MaxOps
    /\ \/ CallSet(p, k, v)
       \/ CallSetWithExpiration(p, k, v, Second)
       \/ CallDel(p, k)
       \/ CallHMSet(p, h, ConcHash)
       \/ CallListPush(p, k, v)
       \/ CallListPop(p, k)
       \/ CallGet(p, k)
       \/ CallHMGet(p, h, <<f, g>>)

\* a call in progress takes its next step
StepCall(p) ==
    \/ Lock(p)
    \/ SetStore(p)
    \/ SetWithExpirationStore(p)
    \/ DelStore(p)
    \/ HMSetStore(p)
    \/ ListPushStore(p)
    \/ ListPopStore(p)
    \/ WriteAOFWriteString(p)
    \/ WriteAOFFlush(p)
    \/ WriteAOFReset(p)
    \/ Unlock(p)
    \/ RLock(p)
    \/ GetRead(p)
    \/ HMGetRead(p)
    \/ RUnlock(p)

NextLocks ==
    \/ ReplayStart
    \/ ReplayLine
    \/ ReplayEnd
    \/ \E p \in ConcProcs : StartCall(p)
    \/ \E p \in ConcProcs : StepCall(p)

\* the scheduler runs every goroutine that can run: main in loadAOF, and a
\* caller whose call can take its next step and stays able to (one waiting
\* for the mutex is not promised more than that)
FairLocks ==
    /\ WF_vars(ReplayLine \/ ReplayEnd)
    /\ \A p \in ConcProcs : WF_vars(StepCall(p))

SpecLocks == InitLocks /\ [][NextLocks]_vars /\ FairLocks

\* the callers inside a method with the mutex locked, and those inside one
\* with it read-locked
Writing == {p \in ConcProcs : pc[p] \in {"body", "writeAOF", "Flush", "Reset", "Unlock"}}
Reading == {p \in ConcProcs : pc[p] \in {"read", "RUnlock"}}

\* C18: under every interleaving of the methods of the store, and while
\* loadAOF replays the file through processCommand: a caller that goes to
\* lock the mutex does not hold it; the mutex is held by exactly the callers
\* inside a method, so it is released when the method returns; a writer
\* excludes every other writer and every reader; and with fair scheduling
\* every call begun returns and the replay ends.
C18_LockDiscipline ==
    /\ [](\A p \in ConcProcs :
             pc[p] \in {"Lock", "RLock"} => mutex.writer # p /\ p \notin mutex.readers)
    /\ [](/\ Writing = {q \in ConcProcs : mutex.writer = q}
          /\ Reading = mutex.readers
          /\ Cardinality(Writing) <= 1
          /\ Writing # {} => Reading = {})
    /\ \A p \in ConcProcs : (pc[p] # "idle") ~> (pc[p] = "idle")
    /\ (status = "replaying") ~> (status # "replaying")

\* two callers hold the read lock together, after a replay that wrote and
\* read the store
C18_Witness ==
    /\ status = "serving"
    /\ mutex.readers = {1, 2}
    /\ mutex.writer = 0
    /\ Len(mutations) > 0

----------------------------------------------------------------------------
(* Hash fields and the other keys.                                         *)

fg == <<"f", ".", "g">>

\* commands on the scalar keys k and h.f, on the fields f and f.g of the
\* hash h, and on the field g of the hash h.f
IsolateCmds ==
    { Cmd(NameGET, <<k>>), Cmd(NameGET, <<hf>>),
      Cmd(NameSET, <<k, v>>), Cmd(NameSET, <<hf, w>>),
      Cmd(NameEXPIRE, <<hf, w, <<"0">>>>),
      Cmd(NameDEL, <<hf>>), Cmd(NameDEL, <<k>>),
      Cmd(NameHMSET, <<h, f, v>>), Cmd(NameHMSET, <<h, fg, v>>),
      Cmd(NameHMSET, <<hf, g, w>>),
      Cmd(NameHMGET, <<h, f>>), Cmd(NameHMGET, <<h, fg>>),
      Cmd(NameHMGET, <<hf, g>>) }

\* the process with these commands
NextIsolate ==
    \/ LoadAOF
    \/ \E cmd \in IsolateCmds : Command(cmd)

SpecIsolate == Init /\ [][NextIsolate]_vars

\* the (key, field) pairs HMGET is asked for
HashPairs == {<<h, f>>, <<h, fg>>, <<hf, g>>, <<k, f>>}

\* the (key, field) pairs HMSET key f1 v1 ... fn vn is on
PairsOf(cmd) == {<<cmd.Args[1], cmd.Args[i]>> : i \in FieldPlaces(cmd.Args)}

\* the scalar keys the history has set with SET
KeysSet(hs) == {hs[i].cmd.Args[1] : i \in {j \in 1..Len(hs) : hs[j].cmd.Name = NameSET}}

\* C19: HMSET on (key, field) changes the HMGET result of that pair only
\* and no GET result of a scalar key set by SET; SET, EXPIRE and DEL on a
\* scalar key change no HMGET result; for keys and fields with a '.' too.
C19_HashFieldsIsolated ==
    [][\A cmd \in IsolateCmds :
          (Command(cmd) /\ last'.outcome = "return") =>
              /\ cmd.Name = NameHMSET =>
                    /\ \A pr \in HashPairs \ PairsOf(cmd) :
                          HMGet(Store', pr[1], <<pr[2]>>) = HMGet(Store, pr[1], <<pr[2]>>)
                    /\ \A key \in KeysSet(hist) :
                          Get(Store', key, clock) = Get(Store, key, clock)
              /\ cmd.Name \in {NameSET, NameEXPIRE, NameDEL} =>
                    \A pr \in HashPairs :
                          HMGet(Store', pr[1], <<pr[2]>>) = HMGet(Store, pr[1], <<pr[2]>>)]_vars

----------------------------------------------------------------------------
(* The SET-only variant: a record written and read back.                   *)

\* lines a connection sends: one space, lower case, runs of white space,
\* white space around, an argument too many, a read, a SET short of a value
ConnLines ==
    { <<"S", "E", "T", SP, "k", SP, "v">>,
      <<"s", "e", "t", SP, "k", SP, "w">>,
      <<"S", "E", "T", SP, SP, "k", TAB, "v">>,
      <<SP, "S", "E", "T", SP, "h", SP, "v", SP>>,
      <<"S", "E", "T", SP, "k", SP, "v", SP, "w">>,
      <<"G", "E", "T", SP, "k">>,
      <<"S", "E", "T", SP, "k">> }

\* lines typed at the prompt: one space, lower case, two spaces before the
\* value, two spaces before the key, a tab in the value, a space at the
\* end, a read, the empty line
InputLines ==
    { <<"S", "E", "T", SP, "k", SP, "v">>,
      <<"s", "e", "t", SP, "h", SP, "w">>,
      <<"S", "E", "T", SP, "k", SP, SP, "v">>,
      <<"S", "E", "T", SP, SP, "k", SP, "v">>,
      <<"S", "E", "T", SP, "k", SP, "v", TAB, "w">>,
      <<"S", "E", "T", SP, "k", SP>>,
      <<"G", "E", "T", SP, "k">>,
      <<>> }

\* main of src/redis.go: loadAOF, then the connections and the prompt
NextBasic ==
    \/ BasicLoad
    \/ \E line \in ConnLines : handleConnection(line)
    \/ \E line \in InputLines : inputCapture(line)

SpecBasic == Init /\ [][NextBasic]_vars

\* what a step has appended to the file
Written == SubSeq(aofFile', Len(aofFile) + 1, Len(aofFile'))

\* the record of Set(key, val) is one line, replay parses it into SET with
\* the arguments key and val, and the replayed SET stores val at key
ReadBack(key, val) ==
    LET lines == ScanLines(Written) IN
    /\ Len(lines) = 1
    /\ parseCommand(lines[1]) = Cmd(NameSET, <<key, val>>)
    /\ processAOFCommands(BasicNewRedisStore(Written), lines).data
           = MapSet(EmptyMap, key, val)

\* C20: in the SET-only variant, for every command accepted live, from a
\* connection or from the prompt, the line writeAOF wrote is parsed by the
\* replay into the same name and the same arguments, and the replayed SET
\* stores the same key and value.
C20_RecordRoundTrip ==
    [][/\ \A line \in ConnLines :
             (handleConnection(line) /\ last'.resp = RespOK) =>
                 ReadBack(last'.cmd.Args[1], last'.cmd.Args[2])
       /\ \A line \in InputLines :
             (inputCapture(line) /\ last'.resp = RespOK) =>
                 ReadBack(last'.cmd.Args[1], last'.cmd.Args[2])]_vars

====
